---- MODULE Spec2Model ----
(***************************************************************************)
(* Model of homeserver_version_bot.py: the Matrix session class, the       *)
(* Federation Tester query, the version table and the main() run.          *)
(*                                                                         *)
(* Python strings are sequences of one-character strings.  A Python value  *)
(* is a record [t, v]: t is the type tag ("str", "None", "int", "raise"    *)
(* for an exception that propagates) and v a sequence that carries the     *)
(* characters of a str, the digits of an int or the exception's name.      *)
(***************************************************************************)
EXTENDS Integers, Sequences, FiniteSets, TLC

VARIABLES
    pc,              \* position of main(): the next statement to run
    config,          \* what main() reads from the .conf file
    token,           \* Matrix.token
    room_id,         \* Matrix.room_id
    room_url,        \* Matrix.room_url
    member_servers,  \* main(): the sorted list of homeservers
    srvlst,          \* main(): the ServerList being filled
    joined,          \* main(): what room_members() returned
    version_table,   \* ServerList.__str__: the rows of the table
    requests,        \* every HTTP request sent so far, with its response's status
    error,           \* the exception that ended the run, if any
    call,            \* a single call of one function: its name and argument
    ret              \* the outcome of that call

vars ==
    <<pc, config, token, room_id, room_url, member_servers, srvlst,
      joined, version_table, requests, error, call, ret>>

-----------------------------------------------------------------------------
(* Python values *)

PyStr(s) ==
    [t |-> "str", v |-> s]

PyNone ==
    [t |-> "None", v |-> <<>>]

PyInt(digits) ==
    [t |-> "int", v |-> digits]

Raise(exc) ==
    [t |-> "raise", v |-> <<exc>>]

IsRaise(x) ==
    x.t = "raise"

\* Code points of the characters that occur in compared strings.
Ord ==
    "-" :> 45 @@ "." :> 46 @@ "0" :> 48 @@ "1" :> 49 @@ "2" :> 50 @@
    "3" :> 51 @@ "4" :> 52 @@ "8" :> 56 @@ ":" :> 58 @@ "@" :> 64 @@
    "a" :> 97 @@ "b" :> 98 @@ "c" :> 99 @@ "d" :> 100 @@ "e" :> 101 @@
    "g" :> 103 @@ "h" :> 104 @@ "l" :> 108 @@ "n" :> 110 @@ "o" :> 111 @@
    "r" :> 114 @@ "s" :> 115 @@ "t" :> 116 @@ "x" :> 120

\* str.__lt__: lexicographic order on code points.
StrLess(a, b) ==
    \E i \in 1..Len(b) :
        /\ i <= Len(a) + 1
        /\ \A j \in 1..(i - 1) : a[j] = b[j]
        /\ (i = Len(a) + 1 \/ Ord[a[i]] < Ord[b[i]])

\* str.split(sep): the pieces of s between the occurrences of sep.
RECURSIVE split(_, _)
split(s, sep) ==
    IF \A i \in 1..Len(s) : s[i] # sep
    THEN <<s>>
    ELSE LET k == CHOOSE i \in 1..Len(s) :
                      s[i] = sep /\ \A j \in 1..(i - 1) : s[j] # sep
         IN  <<SubSeq(s, 1, k - 1)>> \o split(SubSeq(s, k + 1, Len(s)), sep)

\* str.ljust(width, fillchar)
ljust(s, width, fillchar) ==
    IF width <= Len(s) THEN s
    ELSE s \o [i \in 1..(width - Len(s)) |-> fillchar]

-----------------------------------------------------------------------------
(* member_server *)

\* A user id whose first character is not '@' gives None; the server is the
\* second piece of the id split on ':'.  Indexing an empty id, or the pieces
\* of an id without ':', raises IndexError.
member_server(user_id) ==
    IF Len(user_id) = 0 THEN Raise("IndexError")
    ELSE IF user_id[1] # "@" THEN PyNone
    ELSE LET pieces == split(user_id, ":")
         IN  IF Len(pieces) < 2 THEN Raise("IndexError")
             ELSE PyStr(pieces[2])

-----------------------------------------------------------------------------
(* query_homeserver_version *)

FEDTEST_URL ==
    <<"h", "t", "t", "p", "s", ":", "/", "/", "f", "e", "d", "e", "r",
      "a", "t", "i", "o", "n", "t", "e", "s", "t", "e", "r", ".", "m",
      "a", "t", "r", "i", "x", ".", "o", "r", "g", "/", "a", "p", "i",
      "/", "r", "e", "p", "o", "r", "t", "?", "s", "e", "r", "v", "e",
      "r", "_", "n", "a", "m", "e", "=">>

TIMEOUT ==
    <<"[", "T", "I", "M", "E", "O", "U", "T", "]">>

OFFLINE ==
    <<"[", "O", "F", "F", "L", "I", "N", "E", "]">>

ERROR ==
    <<"[", "E", "R", "R", "O", "R", "]">>

Absent ==
    [t |-> "absent", v |-> <<>>]

\* What the Federation Tester's body holds at Version.version when present.
Version_short ==
    <<"1", ".", "0">>

Version_long ==
    <<"1", ".", "1", "0", ".", "0", "-", "r", "c", "1">>

VersionValues ==
    {PyStr(Version_short), PyStr(Version_long), PyInt(<<"5">>), PyNone}

\* The outcomes of requests.get(): a Timeout, another transport exception,
\* or a response.  A response's text is no JSON, a JSON array, or a JSON
\* object with or without FederationOK and Version; Version is an object
\* (with or without "version"), a string or null.
Responses ==
    {[transport |-> tr, json |-> "invalid", FederationOK |-> "absent",
      Version |-> "absent", version |-> Absent] :
        tr \in {"timeout", "connection_error"}}
    \cup
    {[transport |-> "ok", json |-> j, FederationOK |-> "absent",
      Version |-> "absent", version |-> Absent] : j \in {"invalid", "array"}}
    \cup
    {[transport |-> "ok", json |-> "object", FederationOK |-> f,
      Version |-> k, version |-> Absent] :
        f \in {"absent", "true", "false"},
        k \in {"absent", "object", "str", "null"}}
    \cup
    {[transport |-> "ok", json |-> "object", FederationOK |-> f,
      Version |-> "object", version |-> x] :
        f \in {"absent", "true", "false"}, x \in VersionValues}

\* data['Version']['version'] inside try ... except KeyError
version_lookup(resp) ==
    IF resp.Version = "absent" THEN PyStr(ERROR)
    ELSE IF resp.Version # "object" THEN Raise("TypeError")
    ELSE IF resp.version = Absent THEN PyStr(ERROR)
    ELSE resp.version

query_homeserver_version(resp) ==
    IF resp.transport = "timeout" THEN PyStr(TIMEOUT)
    ELSE IF resp.transport # "ok" THEN Raise("ConnectionError")
    ELSE IF resp.json = "invalid" THEN Raise("JSONDecodeError")
    ELSE IF resp.json # "object" THEN Raise("TypeError")
    ELSE IF resp.FederationOK = "absent" THEN Raise("KeyError")
    ELSE IF resp.FederationOK = "false" THEN PyStr(OFFLINE)
    ELSE version_lookup(resp)

-----------------------------------------------------------------------------
(* ServerList.__str__ *)

Homeserver ==
    <<"H", "o", "m", "e", "s", "e", "r", "v", "e", "r">>

Version ==
    <<"V", "e", "r", "s", "i", "o", "n">>

\* The first of the strings in seq that no other is longer than.
first_longest(seq) ==
    seq[CHOOSE i \in 1..Len(seq) :
            /\ \A j \in 1..Len(seq) : Len(seq[j]) <= Len(seq[i])
            /\ \A j \in 1..(i - 1) : Len(seq[j]) < Len(seq[i])]

\* max(items, key=len, default='')
max_by_len_default(items) ==
    IF Len(items) = 0 THEN PyStr(<<>>)
    ELSE IF \E i \in 1..Len(items) : items[i].t # "str"
        THEN Raise("TypeError")
    ELSE PyStr(first_longest([i \in 1..Len(items) |-> items[i].v]))

\* max(items, key=len): ValueError for an empty list, TypeError when an
\* item has no len(), else the first item of the greatest length.
max_by_len(items) ==
    IF Len(items) = 0 THEN Raise("ValueError")
    ELSE IF \E i \in 1..Len(items) : items[i].t # "str"
        THEN Raise("TypeError")
    ELSE PyStr(first_longest([i \in 1..Len(items) |-> items[i].v]))

max2(a, b) ==
    IF a >= b THEN a ELSE b

hosts_of(self) ==
    [i \in 1..Len(self) |-> self[i].host]

versions_of(self) ==
    [i \in 1..Len(self) |-> self[i].version]

maxlen_server(self) ==
    max2(Len(Homeserver), Len(max_by_len(hosts_of(self)).v))

\* The width of the version column without the max() with len('Version').
maxlen_version_no_label(self) ==
    Len(max_by_len(versions_of(self)).v)

maxlen_version(self) ==
    max2(Len(Version), Len(max_by_len(versions_of(self)).v))

\* A row of the table: the host cell, and the version cell as its visible
\* text, the markup around it and the padding after it.
header_row(self) ==
    [host_cell |-> ljust(Homeserver, maxlen_server(self), " "),
     link_open |-> <<>>,
     version_text |-> ljust(Version, maxlen_version(self), " "),
     link_close |-> <<>>,
     version_pad |-> <<>>]

separator_row(self) ==
    [host_cell |-> ljust(<<>>, maxlen_server(self), "-"),
     link_open |-> <<>>,
     version_text |-> ljust(<<>>, maxlen_version(self), "-"),
     link_close |-> <<>>,
     version_pad |-> <<>>]

server_row(self, server) ==
    [host_cell |-> ljust(server.host.v, maxlen_server(self), " "),
     link_open |-> <<"<", "a", " ", "h", "r", "e", "f", "=", "\\", "\"">> \o FEDTEST_URL
                   \o server.host.v \o <<"\\", "\"", ">">>,
     version_text |-> server.version.v,
     link_close |-> <<"<", "/", "a", ">">>,
     version_pad |-> ljust(<<>>, maxlen_version(self) - Len(server.version.v), " ")]

table_rows(self) ==
    <<header_row(self), separator_row(self)>>
        \o [i \in 1..Len(self) |-> server_row(self, self[i])]

\* The characters a row adds to version_table; each row ends with a
\* backslash and an n.
row_text(row) ==
    <<"|", " ">> \o row.host_cell \o <<" ", "|", " ">> \o row.link_open
        \o row.version_text \o row.link_close \o row.version_pad
        \o <<" ", "|", "\\", "n">>

RECURSIVE join_rows(_)
join_rows(rows) ==
    IF rows = <<>> THEN <<>>
    ELSE row_text(Head(rows)) \o join_rows(Tail(rows))

\* The two max() calls come first: what the first raises propagates, then
\* what the second raises; else the table is built.
ServerList_str(self) ==
    IF IsRaise(max_by_len(hosts_of(self))) THEN max_by_len(hosts_of(self))
    ELSE IF IsRaise(max_by_len(versions_of(self)))
        THEN max_by_len(versions_of(self))
    ELSE PyStr(join_rows(table_rows(self)))

-----------------------------------------------------------------------------
(* class Matrix *)

\* How an f-string renders a value: None gives the text None.
fstr(x) ==
    IF x.t = "None" THEN <<"N", "o", "n", "e">> ELSE x.v

\* URLs of the homeserver are sequences of path segments.
clienturl ==
    <<"{endpoint}", "_matrix", "client", "r0">>

login_url ==
    clienturl \o <<"login">>

HTTP_OK ==
    "200"

StatusCodes ==
    {"200", "403"}

\* A request as it is sent, with the status of the response it got ("" where
\* the code never looks at it).
Request(method, url, auth, data, status_code) ==
    [method |-> method, url |-> url, auth |-> auth, data |-> data,
     status_code |-> status_code]

\* The Authorization header api_call adds.
Bearer(tok) ==
    <<"Bearer">> \o fstr(tok)

\* api_call without the check of status_code.
api_call_any_status(resp) ==
    resp.text

\* api_call: the text of a 200 response, '' for any other status.
api_call(resp) ==
    IF resp.status_code # HTTP_OK THEN [json |-> "empty", value |-> Absent]
    ELSE resp.text

\* json.loads(text)[key] where the text is one JSON object with at most
\* that key.
json_get(text) ==
    IF text.json # "object" THEN Raise("JSONDecodeError")
    ELSE IF text.value.t = "absent" THEN Raise("KeyError")
    ELSE text.value

Tokens ==
    {PyStr(<<"tokA">>), PyStr(<<"tokB">>)}

Rooms ==
    {<<"!room1:hs">>, <<"!room2:hs">>}

\* GET /login: json.loads(req.text)['flows'][0]['type']
FlowTexts ==
    {"invalid", "no_flows", "empty_flows", "flows"}

flow_type(text) ==
    CASE text = "invalid" -> Raise("JSONDecodeError")
      [] text = "no_flows" -> Raise("KeyError")
      [] text = "empty_flows" -> Raise("IndexError")
      [] OTHER -> PyStr(<<"m.login.password">>)

\* POST /login answers
LoginResponses ==
    {[status_code |-> c, text |-> [json |-> j, value |-> x]] :
        c \in StatusCodes, j \in {"object", "invalid"},
        x \in Tokens \cup {Absent}}

Abort(where, exc) ==
    /\ pc' = "aborted"
    /\ error' = [where |-> where, exc |-> exc.v[1]]

\* Matrix.login, called from main()
Login ==
    /\ pc = "login"
    /\ \E text \in FlowTexts, resp \in LoginResponses :
        LET flow == flow_type(text)
            get  == Request("GET", login_url, <<>>, <<>>, "")
            post == Request("POST", login_url, Bearer(token), <<>>,
                            resp.status_code)
            tok  == json_get(api_call(resp))
        IN  IF IsRaise(flow)
            THEN /\ requests' = Append(requests, get)
                 /\ Abort("login", flow)
                 /\ UNCHANGED token
            ELSE /\ requests' = requests \o <<get, post>>
                 /\ IF IsRaise(tok)
                    THEN Abort("login", tok) /\ UNCHANGED token
                    ELSE /\ token' = tok
                         /\ pc' = "join_room"
                         /\ UNCHANGED error
    /\ UNCHANGED <<config, room_id, room_url, member_servers, srvlst, joined,
                   version_table, call, ret>>

\* join_room that raises when the join request is refused.
JoinRoom_strict ==
    /\ pc = "join_room"
    /\ room_id' = PyStr(config.room_id)
    /\ room_url' = PyStr(clienturl \o <<"rooms">> \o config.room_id)
    /\ \E c \in StatusCodes :
        /\ requests' = Append(requests,
               Request("POST", fstr(room_url') \o <<"join">>, Bearer(token),
                       <<"{}">>, c))
        /\ IF c # HTTP_OK
           THEN Abort("join_room", Raise("HTTPError"))
           ELSE pc' = "room_members" /\ UNCHANGED error
    /\ UNCHANGED <<config, token, member_servers, srvlst, joined,
                   version_table, call, ret>>

\* Matrix.join_room, called from main() with the configured room
JoinRoom ==
    /\ pc = "join_room"
    /\ room_id' = PyStr(config.room_id)
    /\ room_url' = PyStr(clienturl \o <<"rooms">> \o config.room_id)
    /\ \E c \in StatusCodes :
        requests' = Append(requests,
            Request("POST", fstr(room_url') \o <<"join">>, Bearer(token),
                    <<"{}">>, c))
    /\ pc' = "room_members"
    /\ UNCHANGED <<config, token, member_servers, srvlst, joined,
                   version_table, error, call, ret>>

-----------------------------------------------------------------------------
(* main(): the member list *)

MaxMembers ==
    3

\* The user ids a room may report: well-formed ones (two on the same
\* server, one whose server has a port, one with a long server name), one
\* that does not start with '@', an empty one and one without ':'.
UserIds ==
    {<<"@", "a", ":", "h", "1">>,
     <<"@", "b", ":", "h", "2">>,
     <<"@", "c", ":", "h", "1">>,
     <<"@", "d", ":", "h", "3", ":", "8", "4", "4", "8">>,
     <<"@", "e", ":", "l", "o", "n", "g", "h", "o", "s", "t", ".", "o", "r", "g">>,
     <<"b", "a", "d">>,
     <<>>,
     <<"@", "x">>}

\* The keys of the [dead_servers] section may be any of these.
DeadServers ==
    {<<"h", "1">>, <<"h", "2">>}

\* room_members on a session whose token field is cleared first.
MemberServers_new_session ==
    /\ pc = "room_members"
    /\ token' = PyNone
    /\ requests' = Append(requests,
           Request("GET", fstr(room_url) \o <<"joined_members">>,
                   Bearer(token'), <<>>, "403"))
    /\ Abort("room_members", Raise("JSONDecodeError"))
    /\ UNCHANGED <<config, room_id, room_url, member_servers, srvlst, joined,
                   version_table, call, ret>>

\* GET joined_members answers
MembersResponses ==
    {[status_code |-> c, text |-> [json |-> j, value |-> x]] :
        c \in StatusCodes, j \in {"object", "invalid"},
        x \in {[t |-> "dict", v |-> m] :
                  m \in {u \in SUBSET UserIds : Cardinality(u) <= MaxMembers}}
              \cup {Absent}}

\* Matrix.room_members: the keys of the 'joined' object
room_members(resp) ==
    json_get(api_call(resp))

\* sorted(list(S)): comparing None with a str raises TypeError, and a list
\* of two or more elements always compares each of them with another.
RECURSIVE sorted_strs(_)
sorted_strs(S) ==
    IF S = {} THEN <<>>
    ELSE LET m == CHOOSE x \in S : \A y \in S \ {x} : StrLess(x.v, y.v)
         IN  <<m>> \o sorted_strs(S \ {m})

sorted(S) ==
    IF PyNone \in S
    THEN IF Cardinality(S) >= 2 THEN Raise("TypeError")
         ELSE [t |-> "list", v |-> <<PyNone>>]
    ELSE [t |-> "list", v |-> sorted_strs(S)]

\* sorted(list(set(map(member_server, members)) - set(dead_servers)))
unique_servers(members, dead_servers) ==
    IF \E m \in members : IsRaise(member_server(m)) THEN Raise("IndexError")
    ELSE sorted({member_server(m) : m \in members}
                    \ {PyStr(d) : d \in dead_servers})

\* main(): dead_servers = ...; member_servers = sorted(...)
MemberServers ==
    /\ pc = "room_members"
    /\ \E resp \in MembersResponses :
        LET members == room_members(resp)
            servers == unique_servers(members.v, config.dead_servers)
        IN  /\ requests' = Append(requests,
                   Request("GET", fstr(room_url) \o <<"joined_members">>,
                           Bearer(token), <<>>, resp.status_code))
            /\ IF IsRaise(members)
               THEN /\ Abort("room_members", members)
                    /\ UNCHANGED <<joined, member_servers>>
               ELSE /\ joined' = members
                    /\ IF IsRaise(servers)
                       THEN /\ Abort(IF servers.v[1] = "IndexError"
                                     THEN "member_server" ELSE "sorted",
                                     servers)
                            /\ UNCHANGED member_servers
                       ELSE /\ member_servers' = servers.v
                            /\ pc' = "for_server"
                            /\ UNCHANGED error
    /\ UNCHANGED <<config, token, room_id, room_url, srvlst, version_table,
                   call, ret>>

-----------------------------------------------------------------------------
(* main(): the queries and the message *)

\* The loop with a retry: a server whose query timed out is queried again.
QueryVersion_retry ==
    /\ pc = "for_server"
    /\ Len(srvlst) < Len(member_servers)
    /\ LET server == member_servers[Len(srvlst) + 1]
       IN  /\ requests' = Append(requests,
                  Request("GET", FEDTEST_URL \o fstr(server), <<>>, <<>>, ""))
           /\ \E resp \in Responses :
               LET version == query_homeserver_version(resp)
               IN  IF IsRaise(version)
                   THEN /\ Abort("query_homeserver_version", version)
                        /\ UNCHANGED srvlst
                   ELSE /\ srvlst' = IF version = PyStr(TIMEOUT)
                                        /\ Len(requests) < 8
                                     THEN srvlst
                                     ELSE Append(srvlst,
                                         [host |-> server, version |-> version])
                        /\ UNCHANGED <<pc, error>>
    /\ UNCHANGED <<config, token, room_id, room_url, member_servers, joined,
                   version_table, call, ret>>

\* One turn of the loop "for server in member_servers".
QueryVersion ==
    /\ pc = "for_server"
    /\ Len(srvlst) < Len(member_servers)
    /\ LET server == member_servers[Len(srvlst) + 1]
       IN  /\ requests' = Append(requests,
                  Request("GET", FEDTEST_URL \o fstr(server), <<>>, <<>>, ""))
           /\ \E resp \in Responses :
               LET version == query_homeserver_version(resp)
               IN  IF IsRaise(version)
                   THEN /\ Abort("query_homeserver_version", version)
                        /\ UNCHANGED srvlst
                   ELSE /\ srvlst' = Append(srvlst,
                               [host |-> server, version |-> version])
                        /\ UNCHANGED <<pc, error>>
    /\ UNCHANGED <<config, token, room_id, room_url, member_servers, joined,
                   version_table, call, ret>>

\* matrix.message(str(srvlst)), after the loop
Message ==
    /\ pc = "for_server"
    /\ Len(srvlst) = Len(member_servers)
    /\ LET text == ServerList_str(srvlst)
       IN  IF IsRaise(text)
           THEN /\ Abort("ServerList.__str__", text)
                /\ UNCHANGED <<requests, version_table>>
           ELSE /\ version_table' = table_rows(srvlst)
                /\ \E c \in StatusCodes :
                    requests' = Append(requests,
                        Request("PUT",
                                fstr(room_url)
                                    \o <<"send", "m.room.message", "{time}">>,
                                Bearer(token), text.v, c))
                /\ pc' = "done"
                /\ UNCHANGED error
    /\ UNCHANGED <<config, token, room_id, room_url, member_servers, srvlst,
                   joined, call, ret>>

NoError ==
    [where |-> "", exc |-> ""]

NoCall ==
    [fn |-> "main", arg |-> <<>>]

\* Matrix.__init__ has run and main() has read its configuration.
Init ==
    /\ pc = "login"
    /\ config \in [room_id : Rooms, dead_servers : SUBSET DeadServers]
    /\ token = PyNone
    /\ room_id = PyNone
    /\ room_url = PyNone
    /\ member_servers = <<>>
    /\ srvlst = <<>>
    /\ joined = Absent
    /\ version_table = <<>>
    /\ requests = <<>>
    /\ error = NoError
    /\ call = NoCall
    /\ ret = Absent

Next ==
    \/ Login
    \/ JoinRoom
    \/ MemberServers
    \/ QueryVersion
    \/ Message

Spec ==
    Init /\ [][Next]_vars

-----------------------------------------------------------------------------
(* The three functions called on their own, on every argument of a        *)
(* bounded set.                                                           *)

MaxRecords ==
    2

Hosts ==
    {PyStr(<<"h", "1">>), PyStr(<<"h", "2">>),
     PyStr(<<"l", "o", "n", "g", "h", "o", "s", "t", ".", "o", "r", "g">>),
     PyNone}

Versions ==
    {PyStr(Version_short), PyStr(Version_long), PyStr(ERROR), PyInt(<<"5">>)}

ServerLists ==
    UNION {[1..n -> [host : Hosts, version : Versions]] : n \in 0..MaxRecords}

unchanged_session ==
    UNCHANGED <<config, token, room_id, room_url, member_servers, srvlst,
                joined, error, call>>

CallMemberServer ==
    /\ pc = "call"
    /\ call.fn = "member_server"
    /\ ret' = member_server(call.arg)
    /\ pc' = "returned"
    /\ UNCHANGED <<requests, version_table>>
    /\ unchanged_session

CallQuery ==
    /\ pc = "call"
    /\ call.fn = "query_homeserver_version"
    /\ requests' = Append(requests,
           Request("GET", FEDTEST_URL \o fstr(call.arg.server), <<>>, <<>>, ""))
    /\ ret' = query_homeserver_version(call.arg.resp)
    /\ pc' = "returned"
    /\ UNCHANGED version_table
    /\ unchanged_session

CallStr ==
    /\ pc = "call"
    /\ call.fn = "ServerList.__str__"
    /\ ret' = ServerList_str(call.arg)
    /\ version_table' = IF IsRaise(ret') THEN <<>> ELSE table_rows(call.arg)
    /\ pc' = "returned"
    /\ UNCHANGED requests
    /\ unchanged_session

InitFn ==
    /\ pc = "call"
    /\ \/ call \in [fn : {"member_server"}, arg : UserIds]
       \/ call \in [fn : {"query_homeserver_version"},
                    arg : [server : Hosts \ {PyNone}, resp : Responses]]
       \/ call \in [fn : {"ServerList.__str__"}, arg : ServerLists]
    /\ config = [room_id |-> <<>>, dead_servers |-> {}]
    /\ token = PyNone
    /\ room_id = PyNone
    /\ room_url = PyNone
    /\ member_servers = <<>>
    /\ srvlst = <<>>
    /\ joined = Absent
    /\ version_table = <<>>
    /\ requests = <<>>
    /\ error = NoError
    /\ ret = Absent

NextFn ==
    \/ CallMemberServer
    \/ CallQuery
    \/ CallStr

SpecFn ==
    InitFn /\ [][NextFn]_vars

-----------------------------------------------------------------------------
(* Properties *)

StartsWithAt(user_id) ==
    Len(user_id) > 0 /\ user_id[1] = "@"

HasColon(user_id) ==
    \E i \in 1..Len(user_id) : user_id[i] = ":"

\* Everything after the first ':' of s.
after_first_colon(s) ==
    LET k == CHOOSE i \in 1..Len(s) :
                 s[i] = ":" /\ \A j \in 1..(i - 1) : s[j] # ":"
    IN  SubSeq(s, k + 1, Len(s))

SetMax(S) ==
    CHOOSE x \in S : \A y \in S : y <= x

IsFedtestRequest(r) ==
    /\ Len(r.url) >= Len(FEDTEST_URL)
    /\ SubSeq(r.url, 1, Len(FEDTEST_URL)) = FEDTEST_URL

IsMembersRequest(r) ==
    r.method = "GET" /\ r.url[Len(r.url)] = "joined_members"

IsSendRequest(r) ==
    r.method = "PUT"

IsJoinRequest(r) ==
    r.method = "POST" /\ r.url[Len(r.url)] = "join"

FedtestRequests ==
    SelectSeq(requests, IsFedtestRequest)

SendRequests ==
    SelectSeq(requests, IsSendRequest)

Returned(fn) ==
    pc = "returned" /\ call.fn = fn

\* The server names of the members: what follows the ':' of the ids that
\* start with '@'.
ServerNames ==
    {member_server(m) : m \in {u \in joined.v : StartsWithAt(u) /\ HasColon(u)}}

Excluded ==
    {PyStr(d) : d \in config.dead_servers}

\* C1: for every response (a timeout, or any body) the query returns one of
\* [TIMEOUT], [OFFLINE], [ERROR] or the version string at Version.version,
\* and never raises.
C1_QueryTotal ==
    (Returned("query_homeserver_version")
        /\ call.arg.resp.transport \in {"timeout", "ok"})
    => /\ ret.t = "str"
       /\ \/ ret.v \in {TIMEOUT, OFFLINE, ERROR}
          \/ ret = call.arg.resp.version

\* C2: a member id that does not start with '@' is dropped: the run does not
\* abort because of it, no query is made for it and no row is made for it.
C2_NonUserDropped ==
    (joined.t = "dict" /\ \E m \in joined.v : ~StartsWithAt(m))
    => /\ error.where # "sorted"
       /\ ~(error.where = "member_server"
            /\ \A m \in joined.v : StartsWithAt(m) => HasColon(m))
       /\ ~(error.where = "ServerList.__str__"
            /\ \E i \in 1..Len(srvlst) : srvlst[i].host = PyNone)
       /\ \A i \in 1..Len(srvlst) : srvlst[i].host # PyNone
       /\ \A i \in 1..Len(requests) :
            requests[i].url # FEDTEST_URL \o fstr(PyNone)

\* C3: member_server(s) is no-value when s does not start with '@', else the
\* whole of s after its first ':'; it never raises.
C3_MemberServer ==
    Returned("member_server")
    => /\ ~IsRaise(ret)
       /\ ~StartsWithAt(call.arg) => ret = PyNone
       /\ (StartsWithAt(call.arg) /\ HasColon(call.arg))
            => ret = PyStr(after_first_colon(call.arg))

\* C4: the hosts queried and put in the report are strictly ascending,
\* without duplicates, and are exactly the members' server names minus the
\* excluded ones.
C4_ReportHosts ==
    joined.t = "dict"
    => /\ \A i, j \in 1..Len(srvlst) :
            i < j => StrLess(srvlst[i].host.v, srvlst[j].host.v)
       /\ \A i \in 1..Len(srvlst) : srvlst[i].host \in ServerNames \ Excluded
       /\ \A i \in 1..Len(FedtestRequests) :
            \E h \in ServerNames \ Excluded :
                FedtestRequests[i].url = FEDTEST_URL \o h.v
       /\ pc = "done"
            => {srvlst[i].host : i \in 1..Len(srvlst)} = ServerNames \ Excluded

\* C5: in a run that completes, each distinct non-excluded server is queried
\* exactly once, in ascending order of host, the report has one row per
\* query, and exactly one message is sent, after the last query.
C5_OncePerServer ==
    pc = "done"
    => /\ {member_servers[i] : i \in 1..Len(member_servers)}
            = {member_server(m) : m \in joined.v} \ Excluded
       /\ \A i, j \in 1..Len(member_servers) :
            i < j => StrLess(member_servers[i].v, member_servers[j].v)
       /\ Len(FedtestRequests) = Len(member_servers)
       /\ \A i \in 1..Len(member_servers) :
            FedtestRequests[i].url = FEDTEST_URL \o member_servers[i].v
       /\ Len(srvlst) = Len(member_servers)
       /\ \A i \in 1..Len(srvlst) : srvlst[i].host = member_servers[i]
       /\ Len(SendRequests) = 1
       /\ IsSendRequest(requests[Len(requests)])

C5_Witness ==
    /\ pc = "done"
    /\ Len(srvlst) >= 2
    /\ \E i \in 1..Len(srvlst) : srvlst[i].version = PyStr(TIMEOUT)

\* C6: for a non-empty list of records the table is column-aligned: the host
\* column is as wide as the longer of 'Homeserver' and the longest host, the
\* version column as wide as the longer of 'Version' and the longest version,
\* in the header row, the separator row and every data row (the version cell
\* counted as its visible text and padding).
C6_ColumnAligned ==
    (/\ Returned("ServerList.__str__")
     /\ Len(call.arg) > 0
     /\ \A i \in 1..Len(call.arg) :
            call.arg[i].host.t = "str" /\ call.arg[i].version.t = "str")
    => LET w == SetMax({Len(Homeserver)}
                    \cup {Len(call.arg[i].host.v) : i \in 1..Len(call.arg)})
           v == SetMax({Len(Version)}
                    \cup {Len(call.arg[i].version.v) : i \in 1..Len(call.arg)})
       IN  /\ ret = PyStr(join_rows(version_table))
           /\ Len(version_table) = Len(call.arg) + 2
           /\ \A r \in 1..Len(version_table) :
                /\ Len(version_table[r].host_cell) = w
                /\ Len(version_table[r].version_text)
                     + Len(version_table[r].version_pad) = v
           /\ \A i \in 1..Len(call.arg) :
                /\ SubSeq(version_table[i + 2].host_cell, 1,
                          Len(call.arg[i].host.v)) = call.arg[i].host.v
                /\ version_table[i + 2].version_text = call.arg[i].version.v

C6_Witness ==
    /\ Returned("ServerList.__str__")
    /\ ret.t = "str"
    /\ Len(call.arg) = 2
    /\ Len(call.arg[1].host.v) > Len(Homeserver)
    /\ Len(call.arg[2].host.v) < Len(Homeserver)
    /\ Len(call.arg[1].version.v) < Len(Version)
    /\ Len(call.arg[2].version.v) < Len(Version)

\* C7: whatever the status of the join response, the session's room id and
\* room URL are those of the requested room, join_room does not raise, and
\* the next request is the one for the members of that room.
C7_JoinLenient ==
    (Len(requests) >= 3 /\ IsJoinRequest(requests[3]))
    => /\ room_id = PyStr(config.room_id)
       /\ room_url = PyStr(clienturl \o <<"rooms">> \o config.room_id)
       /\ error.where # "join_room"
       /\ \/ pc = "room_members" /\ Len(requests) = 3
          \/ /\ Len(requests) >= 4
             /\ IsMembersRequest(requests[4])
             /\ requests[4].url = fstr(room_url) \o <<"joined_members">>

C7_Witness ==
    /\ Len(requests) >= 4
    /\ IsJoinRequest(requests[3])
    /\ requests[3].status_code # HTTP_OK
    /\ IsMembersRequest(requests[4])

\* C8: when the login submit request gets a non-200 response, login raises
\* on the empty text api_call returns, the token stays absent and the run
\* ends there: no request follows.
C8_LoginRejected ==
    (Len(requests) >= 2 /\ requests[2].status_code # HTTP_OK)
    => /\ pc = "aborted"
       /\ error = [where |-> "login", exc |-> "JSONDecodeError"]
       /\ token = PyNone
       /\ Len(requests) = 2

C8_Witness ==
    /\ Len(requests) = 2
    /\ requests[2].method = "POST"
    /\ requests[2].status_code = "403"
    /\ pc = "aborted"

\* C9: when no server is left after de-duplication and exclusion, rendering
\* raises on the max() of an empty list, the run aborts and no message is
\* sent.
C9_EmptyAborts ==
    /\ [][(pc = "for_server" /\ member_servers = <<>>)
            => /\ pc' = "aborted"
               /\ error' = [where |-> "ServerList.__str__",
                            exc |-> "ValueError"]
               /\ requests' = requests]_vars
    /\ [](member_servers = <<>> => Len(SendRequests) = 0)

C9_Witness ==
    /\ pc = "aborted"
    /\ error = [where |-> "ServerList.__str__", exc |-> "ValueError"]
    /\ joined.t = "dict"
    /\ joined.v # {}
    /\ member_servers = <<>>

\* C10: the token is assigned at most once, by login; the room id and room
\* URL at most once, by join_room, after the token; no other step changes
\* them; every members or send request carries the token login stored and
\* goes to the joined room.
C10_WriteOnce ==
    /\ [][/\ token # PyNone => token' = token
          /\ room_id # PyNone => room_id' = room_id
          /\ room_url # PyNone => room_url' = room_url
          /\ token' # token => pc = "login"
          /\ (room_id' # room_id \/ room_url' # room_url)
                => (pc = "join_room" /\ token # PyNone)]_vars
    /\ [](\A i \in 1..Len(requests) :
            (IsMembersRequest(requests[i]) \/ IsSendRequest(requests[i]))
            => /\ token \in Tokens
               /\ requests[i].auth = Bearer(token)
               /\ room_id = PyStr(config.room_id)
               /\ room_url = PyStr(clienturl \o <<"rooms">> \o config.room_id)
               /\ SubSeq(requests[i].url, 1, Len(room_url.v)) = room_url.v)

C10_Witness ==
    /\ pc = "done"
    /\ Len(SendRequests) = 1
    /\ Len(requests) >= 6

====
